---- MODULE Spec2Model ----
(***************************************************************************)
(* Model of image_analyzer.py: a sequential batch pipeline that reads a    *)
(* list of page URLs, fetches each page, extracts image references,        *)
(* probes every image and writes image_report.csv / failed_websites.csv.   *)
(*                                                                         *)
(* Strings that the program only copies are TLA+ strings.  URLs are        *)
(* records [scheme, netloc, path]: scheme "" is a reference without a      *)
(* scheme, netloc "" one without an authority, and path is the sequence    *)
(* of "/"-separated segments, whose first element "" stands for a leading  *)
(* "/" (so "/img/a.jpg" is <<"", "img", "a.jpg">>, as str.split gives).    *)
(* A Python Optional is a sequence of length at most one: None is <<>>.    *)
(***************************************************************************)
EXTENDS Integers, Sequences, FiniteSets, TLC

VARIABLES pc, urls, failed_websites, image_report, failed_report,
          i, images, j, details, img_response, page_log,
          x_url, x_response, x_result

vars == <<pc, urls, failed_websites, image_report, failed_report,
          i, images, j, details, img_response, page_log,
          x_url, x_response, x_result>>

main_vars == <<urls, failed_websites, image_report, failed_report,
               i, images, j, details, img_response, page_log>>

x_vars == <<x_url, x_response, x_result>>

-----------------------------------------------------------------------------
(* Bounds of the model *)

\* most lines in the input file
MaxLines == 3

\* most image-bearing tags in a document of the extraction specification
MaxTags == 3

-----------------------------------------------------------------------------
(* Python values *)

None == <<>>

Some(v) == <<v>>

Range(s) == {s[k] : k \in 1..Len(s)}

\* all sequences over S of length at most n
SeqsUpTo(S, n) == UNION {[1..m -> S] : m \in 0..n}

-----------------------------------------------------------------------------
(* URLs *)

Url(scheme, netloc, path) == [scheme |-> scheme, netloc |-> netloc, path |-> path]

\* the empty string, as a reference
EmptyStr == Url("", "", <<>>)

\* input entries: "example.com" and "http://example.com/dir/page.html"
EntrySchemeless == Url("", "example.com", <<>>)

EntryPage == Url("http", "example.com", <<"", "dir", "page.html">>)

InputEntries == {EntrySchemeless, EntryPage}

\* redirect-resolved URLs a server may answer from
FinalUrls == {Url("http", "example.com", <<>>), EntryPage}

\* tag sources
SrcAbsolute == Url("https", "cdn.example.com", <<"", "big.png">>)

SrcProtocolRel == Url("", "cdn.example.com", <<"", "big.png">>)

SrcRootRel == Url("", "", <<"", "img", "a.jpg">>)

SrcRelative == Url("", "", <<"img", "a.jpg">>)

SrcParent == Url("", "", <<"..", "img", "a.jpg">>)

SrcData == Url("data", "", <<"image", "png;base64,AAAA">>)

\* "http://[x": a netloc with an unbalanced bracket
SrcMalformed == Url("http", "[x", <<>>)

\* netlocs for which urlsplit raises ValueError("Invalid IPv6 URL")
UnbalancedNetlocs == {"[x"}

\* url.startswith(('http://', 'https://'))
HasHttpPrefix(url) == url.scheme \in {"http", "https"}

\* 'http://' + url
PrependHttp(url) == Url("http", url.netloc, url.path)

\* the schemeless-URL handling of get_images_from_url
NormalizeUrl(url) == IF ~HasHttpPrefix(url) THEN PrependHttp(url) ELSE url

\* f"{parsed.scheme}://{parsed.netloc}"
BaseOf(effective_url) == Url(effective_url.scheme, effective_url.netloc, <<>>)

\* schemes urllib.parse resolves relative references for (uses_relative)
UsesRelative == {"http", "https", "ftp", "file"}

\* urlsplit raises ValueError on this reference
RaisesValueError(src) == src.netloc \in UnbalancedNetlocs

\* base_parts of urljoin: the base path without its last segment
BaseParts(bpath) ==
    IF Len(bpath) > 0 /\ bpath[Len(bpath)] # ""
    THEN SubSeq(bpath, 1, Len(bpath) - 1)
    ELSE bpath

RECURSIVE RemoveDots(_, _)
\* the resolved_path loop of urljoin: ".." pops, "." is dropped
RemoveDots(segments, resolved) ==
    IF segments = <<>> THEN resolved
    ELSE LET seg == Head(segments) IN
         IF seg = ".."
         THEN RemoveDots(Tail(segments),
                         IF resolved = <<>> THEN resolved
                         ELSE SubSeq(resolved, 1, Len(resolved) - 1))
         ELSE IF seg = "."
         THEN RemoveDots(Tail(segments), resolved)
         ELSE RemoveDots(Tail(segments), Append(resolved, seg))

\* urlunparse puts "/" before a path that lacks it when there is a netloc
Rooted(path) == IF path # <<>> /\ path[1] # "" THEN <<"">> \o path ELSE path

\* urllib.parse.urljoin(base, url) for a non-empty url without query/fragment
urljoin(base, url) ==
    LET scheme == IF url.scheme = "" THEN base.scheme ELSE url.scheme IN
    IF scheme # base.scheme \/ scheme \notin UsesRelative THEN url
    ELSE IF url.netloc # "" THEN Url(scheme, url.netloc, url.path)
    ELSE IF url.path = <<>> THEN Url(scheme, base.netloc, base.path)
    ELSE LET segments == IF url.path[1] = "" THEN url.path
                         ELSE BaseParts(base.path) \o url.path
         IN Url(scheme, base.netloc, Rooted(RemoveDots(segments, <<>>)))

-----------------------------------------------------------------------------
(* HTML: the sequence of elements soup.find_all would visit, plus others *)

Tag(name, src, data) == [name |-> name, src |-> src, data |-> data]

\* tag.get(attr) by tag kind
SourceAttr(tag) ==
    IF tag.name = "img" THEN tag.src
    ELSE IF tag.name = "object" THEN tag.data
    ELSE IF tag.name = "embed" THEN tag.src
    ELSE None

\* soup.find_all(['img', 'object', 'embed'])
find_all(html) == SelectSeq(html, LAMBDA tag : tag.name \in {"img", "object", "embed"})

\* variant of KeepSrc without the data: test
KeepSrcIgnoringData(src) == src # None /\ src[1] # EmptyStr

\* `if src and not src.startswith('data:')`
KeepSrc(src) == src # None /\ src[1] # EmptyStr /\ src[1].scheme # "data"

\* variant of Dedupe that keeps the last occurrence of every element
RECURSIVE DedupeKeepLast(_)
DedupeKeepLast(s) ==
    IF s = <<>> THEN <<>>
    ELSE IF s[Len(s)] \in Range(SubSeq(s, 1, Len(s) - 1))
         THEN LET front == SubSeq(s, 1, Len(s) - 1) IN
              Append(SelectSeq(DedupeKeepLast(front), LAMBDA e : e # s[Len(s)]), s[Len(s)])
         ELSE Append(DedupeKeepLast(SubSeq(s, 1, Len(s) - 1)), s[Len(s)])

RECURSIVE Dedupe(_)
\* list(dict.fromkeys(images)): first occurrences, in order
Dedupe(s) ==
    IF s = <<>> THEN <<>>
    ELSE LET front == Dedupe(SubSeq(s, 1, Len(s) - 1)) IN
         IF s[Len(s)] \in Range(front) THEN front ELSE Append(front, s[Len(s)])

\* the sources the tag loop keeps, in document order
KeptSources(html) ==
    LET tags == find_all(html)
        kept == SelectSeq(tags, LAMBDA tag : KeepSrc(SourceAttr(tag)))
    IN [k \in 1..Len(kept) |-> SourceAttr(kept[k])[1]]

\* the tag loop: images.append(urljoin(base, src))
CollectImages(effective_url, html) ==
    LET srcs == KeptSources(html)
    IN [k \in 1..Len(srcs) |-> urljoin(BaseOf(effective_url), srcs[k])]

\* the loop raises when urljoin meets a source urlsplit rejects
CollectRaises(html) == \E src \in Range(KeptSources(html)) : RaisesValueError(src)

-----------------------------------------------------------------------------
(* HTTP responses (inputs from the network) *)

\* requests.get raised a RequestException (DNS, refused, timeout)
PageFault == [fault |-> TRUE, status |-> 0, url |-> EmptyStr, text |-> <<>>]

PageResponse(status, url, text) ==
    [fault |-> FALSE, status |-> status, url |-> url, text |-> text]

\* response.raise_for_status(): HTTPError for 4xx and 5xx
RaisesForStatus(response) == response.status >= 400 /\ response.status < 600

\* f"Error fetching {url}: {e}" with the local (normalized) url
ErrorMsg(url, cause) == [fetching |-> url, cause |-> cause]

\* get_images_from_url(url, headers), given what the network answers.
\* raised: an exception that is no RequestException leaves the function.
get_images_from_url(url, response) ==
    LET u == NormalizeUrl(url) IN
    IF response.fault
    THEN [images |-> <<>>, unique_images |-> <<>>,
          error |-> Some(ErrorMsg(u, "ConnectionError")), raised |-> FALSE]
    ELSE IF RaisesForStatus(response)
    THEN [images |-> <<>>, unique_images |-> <<>>,
          error |-> Some(ErrorMsg(u, "HTTPError")), raised |-> FALSE]
    ELSE IF CollectRaises(response.text)
    THEN [images |-> <<>>, unique_images |-> <<>>, error |-> None, raised |-> TRUE]
    ELSE LET imgs == CollectImages(response.url, response.text) IN
         [images |-> imgs, unique_images |-> Dedupe(imgs),
          error |-> None, raised |-> FALSE]

-----------------------------------------------------------------------------
(* The image prober *)

\* 1024 * 100 in main's size test
Threshold == 1024 * 100

ImgFault == [fault |-> TRUE, status |-> 0,
             content |-> [size |-> 0, decodable |-> FALSE, width |-> 0, height |-> 0]]

ImgResponse(status, content) == [fault |-> FALSE, status |-> status, content |-> content]

\* a raster image ImageFile.Parser identifies, of `size` bytes
Raster(size) == [size |-> size, decodable |-> TRUE, width |-> 800, height |-> 600]

\* bytes no PIL plugin identifies (SVG, corrupt stream), of `size` bytes
Opaque(size) == [size |-> size, decodable |-> FALSE, width |-> 0, height |-> 0]

\* parser.close() raises OSError("cannot parse this image") when no image
\* was identified from the bytes fed to it
ParserCloseRaises(content) == ~content.decodable

\* parser.close() when it returns: the identified image
ParserClose(content) == Some([width |-> content.width, height |-> content.height])

\* variant of get_image_details without raise_for_status()
get_image_details_unchecked(image_url, response) ==
    IF response.fault THEN None
    ELSE IF ParserCloseRaises(response.content) THEN None
    ELSE LET img == ParserClose(response.content) IN
         Some([url |-> image_url, size |-> response.content.size,
               width |-> IF img # None THEN Some(img[1].width) ELSE None,
               height |-> IF img # None THEN Some(img[1].height) ELSE None])

\* get_image_details(image_url, headers), given what the network answers:
\* every exception inside the try block is caught and turned into None
get_image_details(image_url, response) ==
    IF response.fault THEN None
    ELSE IF RaisesForStatus(response) THEN None
    ELSE IF ParserCloseRaises(response.content) THEN None
    ELSE LET img == ParserClose(response.content) IN
         Some([url |-> image_url, size |-> response.content.size,
               width |-> IF img # None THEN Some(img[1].width) ELSE None,
               height |-> IF img # None THEN Some(img[1].height) ELSE None])

\* variant of Qualifies with a strict comparison
QualifiesStrict(d) == d # None /\ d[1].size > Threshold

\* `details and details['size'] >= 1024 * 100`
Qualifies(d) == d # None /\ d[1].size >= Threshold

\* the dict given to writer.writerow in main
ReportRow(url, d) ==
    [website |-> url, image |-> d.url, bytes |-> d.size,
     width |-> d.width, height |-> d.height]

\* variant of FailureRecord that stores the URL with its scheme prepended
FailureRecordNormalized(url, error) == [url |-> NormalizeUrl(url), error |-> error]

\* {'url': url, 'error': error} appended to failed_websites
FailureRecord(url, error) == [url |-> url, error |-> error]

-----------------------------------------------------------------------------
(* Files *)

NoFile == [exists |-> FALSE, header |-> <<>>, rows |-> <<>>]

\* open(name, 'w') followed by writer.writeheader()
NewCsv(header) == [exists |-> TRUE, header |-> header, rows |-> <<>>]

ReportHeader == <<"website", "image", "bytes", "width", "height">>

FailedHeader == <<"url", "error">>

\* a line of the input file: text with optional surrounding whitespace
Line(text, padded) == [text |-> text, padded |-> padded]

\* line.strip()
strip(line) == line.text

InputLines == {Line(e, p) : e \in InputEntries \cup {EmptyStr}, p \in BOOLEAN}

\* [line.strip() for line in f if line.strip()]
ReadUrls(lines) ==
    LET kept == SelectSeq(lines, LAMBDA line : strip(line) # EmptyStr)
    IN [k \in 1..Len(kept) |-> strip(kept[k])]

-----------------------------------------------------------------------------
(* Inputs from the network in the pipeline specification *)

\* documents the pages answer with
Documents ==
    { <<>>,
      <<Tag("img", Some(SrcAbsolute), None)>>,
      <<Tag("img", Some(SrcRelative), None), Tag("object", None, Some(SrcAbsolute))>>,
      <<Tag("img", Some(SrcRootRel), None), Tag("embed", Some(SrcRelative), None)>>,
      <<Tag("img", Some(SrcMalformed), None)>> }

PageResponses ==
    {PageFault, PageResponse(404, EntryPage, <<>>)}
        \cup {PageResponse(200, u, d) : u \in FinalUrls, d \in Documents}

ImageSizes == {Threshold - 1, Threshold}

ImageResponses ==
    {ImgFault, ImgResponse(404, Raster(Threshold))}
        \cup {ImgResponse(200, Raster(n)) : n \in ImageSizes}
        \cup {ImgResponse(200, Opaque(n)) : n \in ImageSizes}

-----------------------------------------------------------------------------
(* main.  page_log is a history variable: one entry per call of
   get_images_from_url, with the URL it requested and what it returned. *)

Init ==
    /\ pc = "start"
    /\ urls = <<>>
    /\ failed_websites = <<>>
    /\ image_report = NoFile
    /\ failed_report = NoFile
    /\ i = 1
    /\ images = <<>>
    /\ j = 1
    /\ details = None
    /\ img_response = ImgFault
    /\ page_log = <<>>
    /\ x_url = EmptyStr
    /\ x_response = PageFault
    /\ x_result = get_images_from_url(EmptyStr, PageFault)

\* len(sys.argv) < 2: print the usage line and return
Usage ==
    /\ pc = "start"
    /\ pc' = "usage"
    /\ UNCHANGED <<main_vars, x_vars>>

\* variant of ReadInput in which the report is opened before the input
ReadInputAfterReport ==
    /\ pc = "start"
    /\ \/ /\ pc' = "aborted"
          /\ image_report' = NewCsv(ReportHeader)
          /\ UNCHANGED urls
       \/ \E lines \in SeqsUpTo(InputLines, MaxLines) :
             /\ urls' = ReadUrls(lines)
             /\ pc' = "open_report"
             /\ UNCHANGED image_report
    /\ UNCHANGED <<failed_websites, failed_report, i, images, j,
                   details, img_response, page_log, x_vars>>

\* open(sys.argv[1]) and the list comprehension; open may raise OSError,
\* which nothing catches
ReadInput ==
    /\ pc = "start"
    /\ \/ /\ pc' = "aborted"
          /\ UNCHANGED urls
       \/ \E lines \in SeqsUpTo(InputLines, MaxLines) :
             /\ urls' = ReadUrls(lines)
             /\ pc' = "open_report"
    /\ UNCHANGED <<failed_websites, image_report, failed_report, i, images, j,
                   details, img_response, page_log, x_vars>>

\* failed_websites = []; open('image_report.csv', 'w'); writer.writeheader()
OpenReport ==
    /\ pc = "open_report"
    /\ failed_websites' = <<>>
    /\ image_report' = NewCsv(ReportHeader)
    /\ i' = 1
    /\ pc' = "pages"
    /\ UNCHANGED <<urls, failed_report, images, j, details, img_response,
                   page_log, x_vars>>

\* one iteration head of `for url in urls`: the call of get_images_from_url
\* and the `if error` branch
FetchPage ==
    /\ pc = "pages"
    /\ i <= Len(urls)
    /\ \E response \in PageResponses :
          LET url == urls[i]
              got == get_images_from_url(url, response)
          IN /\ page_log' = Append(page_log,
                                   [url |-> NormalizeUrl(url),
                                    error |-> got.error,
                                    raised |-> got.raised,
                                    images |-> got.unique_images])
             /\ IF got.raised
                THEN /\ pc' = "crashed"
                     /\ UNCHANGED <<failed_websites, i, images, j>>
                ELSE IF got.error # None
                THEN /\ failed_websites' =
                            Append(failed_websites, FailureRecord(url, got.error[1]))
                     /\ images' = got.unique_images
                     /\ i' = i + 1
                     /\ pc' = "pages"
                     /\ UNCHANGED j
                ELSE /\ images' = got.unique_images
                     /\ j' = 1
                     /\ pc' = "images"
                     /\ UNCHANGED <<failed_websites, i>>
    /\ UNCHANGED <<urls, image_report, failed_report, details, img_response, x_vars>>

\* one iteration of `for img in images`: the probe and the conditional row
ProbeImage ==
    /\ pc = "images"
    /\ j <= Len(images)
    /\ \E response \in ImageResponses :
          LET d == get_image_details(images[j], response)
          IN /\ img_response' = response
             /\ details' = d
             /\ image_report' =
                   IF Qualifies(d)
                   THEN [image_report EXCEPT
                            !.rows = Append(@, ReportRow(urls[i], d[1]))]
                   ELSE image_report
    /\ j' = j + 1
    /\ UNCHANGED <<pc, urls, failed_websites, failed_report, i, images,
                   page_log, x_vars>>

\* `for img in images` is exhausted: on to the next url
NextPage ==
    /\ pc = "images"
    /\ j > Len(images)
    /\ i' = i + 1
    /\ pc' = "pages"
    /\ UNCHANGED <<urls, failed_websites, image_report, failed_report, images, j,
                   details, img_response, page_log, x_vars>>

\* variant of Finalize that writes the records last to first
FinalizeReversed ==
    /\ pc = "pages"
    /\ i > Len(urls)
    /\ failed_report' =
          [NewCsv(FailedHeader) EXCEPT
              !.rows = [k \in 1..Len(failed_websites) |->
                           failed_websites[Len(failed_websites) + 1 - k]]]
    /\ pc' = "done"
    /\ UNCHANGED <<urls, failed_websites, image_report, i, images, j,
                   details, img_response, page_log, x_vars>>

\* `for url in urls` is exhausted: open('failed_websites.csv', 'w'),
\* writeheader(), writerows(failed_websites)
Finalize ==
    /\ pc = "pages"
    /\ i > Len(urls)
    /\ failed_report' = [NewCsv(FailedHeader) EXCEPT !.rows = failed_websites]
    /\ pc' = "done"
    /\ UNCHANGED <<urls, failed_websites, image_report, i, images, j,
                   details, img_response, page_log, x_vars>>

Next ==
    \/ Usage
    \/ ReadInput
    \/ OpenReport
    \/ FetchPage
    \/ ProbeImage
    \/ NextPage
    \/ Finalize

Spec == Init /\ [][Next]_vars

-----------------------------------------------------------------------------
(* get_images_from_url as a function of (url, response) *)

\* elements a document may contain
Tags ==
    { Tag("img", Some(SrcAbsolute), None),
      Tag("img", Some(SrcProtocolRel), None),
      Tag("img", Some(SrcRootRel), None),
      Tag("img", Some(SrcRelative), None),
      Tag("img", Some(SrcParent), None),
      Tag("img", Some(SrcData), None),
      Tag("img", Some(EmptyStr), None),
      Tag("img", None, Some(SrcAbsolute)),
      Tag("object", None, Some(SrcRootRel)),
      Tag("object", Some(SrcAbsolute), None),
      Tag("object", None, Some(SrcData)),
      Tag("embed", Some(SrcRelative), None),
      Tag("embed", None, Some(SrcParent)),
      Tag("img", Some(SrcMalformed), None),
      Tag("video", Some(SrcAbsolute), Some(SrcAbsolute)) }

Htmls == SeqsUpTo(Tags, MaxTags)

InitExtract ==
    /\ pc = "call"
    /\ x_url \in InputEntries
    /\ x_response \in {PageFault, PageResponse(404, EntryPage, <<>>)}
                         \cup {PageResponse(200, u, h) : u \in FinalUrls, h \in Htmls}
    /\ x_result = get_images_from_url(EmptyStr, PageFault)
    /\ urls = <<>>
    /\ failed_websites = <<>>
    /\ image_report = NoFile
    /\ failed_report = NoFile
    /\ i = 1
    /\ images = <<>>
    /\ j = 1
    /\ details = None
    /\ img_response = ImgFault
    /\ page_log = <<>>

\* images, error = get_images_from_url(url, user_agent)
CallGetImages ==
    /\ pc = "call"
    /\ x_result' = get_images_from_url(x_url, x_response)
    /\ pc' = "returned"
    /\ UNCHANGED <<main_vars, x_url, x_response>>

NextExtract == CallGetImages

SpecExtract == InitExtract /\ [][NextExtract]_vars

-----------------------------------------------------------------------------
(* Properties of the pipeline *)

\* the call of get_images_from_url for urls[k] returned an error message
FetchFailed(k) == page_log[k].error # None

\* indices of the input pages whose fetch failed, ascending
RECURSIVE FailedPages(_)
FailedPages(n) ==
    IF n = 0 THEN <<>>
    ELSE IF FetchFailed(n) THEN Append(FailedPages(n - 1), n)
    ELSE FailedPages(n - 1)

RecordsFor(u) == {n \in 1..Len(failed_websites) : failed_websites[n].url = u}

RowsFor(u) == {n \in 1..Len(image_report.rows) : image_report.rows[n].website = u}

\* C1 as stated: at the end of the run every page whose fetch failed has
\* exactly one failure record carrying its original input string, and the
\* report holds no row whose website is that page.
C1_OneRecordPerFailedUrl ==
    pc = "done" =>
        \A k \in 1..Len(page_log) :
            FetchFailed(k) =>
                /\ Cardinality(RecordsFor(urls[k])) = 1
                /\ RowsFor(urls[k]) = {}

\* C1 amended: at the end of the run the failure records are, one for one,
\* the input lines whose fetch failed, each carrying the line's original
\* string (no scheme prepended): a string has as many records as failing
\* lines, and the report holds rows with that website only if another line
\* with the same string was fetched successfully.
C1_OneRecordPerFailedLine ==
    pc = "done" =>
        /\ Len(page_log) = Len(urls)
        /\ Len(failed_websites) = Len(FailedPages(Len(page_log)))
        /\ \A k \in 1..Len(page_log) :
              FetchFailed(k) =>
                 /\ Cardinality(RecordsFor(urls[k])) =
                       Cardinality({m \in 1..Len(urls) :
                                       urls[m] = urls[k] /\ FetchFailed(m)})
                 /\ RowsFor(urls[k]) # {} =>
                       \E m \in 1..Len(urls) : urls[m] = urls[k] /\ ~FetchFailed(m)

\* a run in which a schemeless page failed, another page was reported, and
\* the failing string occurs once
C1_Witness ==
    /\ pc = "done"
    /\ image_report.rows # <<>>
    /\ \E k \in 1..Len(page_log) :
          /\ FetchFailed(k)
          /\ urls[k] = EntrySchemeless
          /\ Cardinality(RecordsFor(urls[k])) = 1
          /\ RowsFor(urls[k]) = {}

\* C2: a probe step writes a row exactly when it produced details whose
\* measured size is at least 102400 bytes; the row is for the probed image.
C2_RowIffAtLeastThreshold ==
    [][j' = j + 1 =>
         LET reported == details' # None /\ details'[1].size >= 102400 IN
         /\ details' # None => details'[1].size = img_response'.content.size
         /\ reported =>
               image_report'.rows =
                   Append(image_report.rows,
                          [website |-> urls[i], image |-> images[j],
                           bytes |-> details'[1].size,
                           width |-> details'[1].width,
                           height |-> details'[1].height])
         /\ ~reported => image_report' = image_report]_vars

\* the second image of a page has just been reported with exactly 102400
\* bytes, the first one was not reported
C2_Witness ==
    /\ pc = "images"
    /\ j = 3
    /\ details # None
    /\ details[1].size = 102400
    /\ Len(image_report.rows) = 1
    /\ image_report.rows[1].bytes = 102400
    /\ image_report.rows[1].image = images[2]

\* C3 as stated: an image that was fetched but whose dimensions cannot be
\* decoded still yields details with the measured size and no width/height.
C3_UndecodableKeepsDetails ==
    (~img_response.fault /\ ~RaisesForStatus(img_response)
        /\ ~img_response.content.decodable) =>
        /\ details # None
        /\ details[1].size = img_response.content.size
        /\ details[1].width = None
        /\ details[1].height = None

ProbeFailed(r) == r.fault \/ RaisesForStatus(r) \/ ~r.content.decodable

\* C7: a probe that fails produces no details, writes nothing to either
\* report or to the failure list, and the loop goes on to the next image
\* of the same page.
C7_FailedProbeIsSilent ==
    [][(j' = j + 1 /\ ProbeFailed(img_response')) =>
          /\ details' = None
          /\ image_report' = image_report
          /\ failed_websites' = failed_websites
          /\ failed_report' = failed_report
          /\ pc' = "images" /\ i' = i /\ images' = images]_vars

\* the first image of a two-image page has just failed with a 404 while
\* rows and failure records of earlier pages exist
C7_Witness ==
    /\ pc = "images"
    /\ j = 2
    /\ Len(images) = 2
    /\ img_response.status = 404
    /\ details = None
    /\ image_report.rows # <<>>
    /\ failed_websites # <<>>

\* C8 as stated: once the input is read no failure escapes as an
\* exception, and the run ends with failed_websites.csv written with its
\* header and the accumulated records after all pages were processed.
C8_RunAlwaysFinalizes ==
    /\ pc # "crashed"
    /\ pc = "done" =>
          /\ Len(page_log) = Len(urls)
          /\ failed_report = [exists |-> TRUE, header |-> FailedHeader,
                              rows |-> failed_websites]

\* C9: when the input file cannot be opened neither output file is created
\* and no page is fetched.
C9_AbortBeforeOutput ==
    pc = "aborted" =>
        /\ ~image_report.exists
        /\ ~failed_report.exists
        /\ page_log = <<>>

C9_Witness == pc = "aborted" /\ urls = <<>>

\* <<website, image>> of every image returned for the first n pages, in
\* page order and, inside a page, in the order of the returned list
RECURSIVE Discovered(_)
Discovered(n) ==
    IF n = 0 THEN <<>>
    ELSE Discovered(n - 1) \o
         [k \in 1..Len(page_log[n].images) |-> <<urls[n], page_log[n].images[k]>>]

RECURSIVE IsSubsequence(_, _)
IsSubsequence(s, t) ==
    IF s = <<>> THEN TRUE
    ELSE IF t = <<>> THEN FALSE
    ELSE IF Head(s) = Head(t) THEN IsSubsequence(Tail(s), Tail(t))
    ELSE IsSubsequence(s, Tail(t))

\* C10: the k-th page request is for the k-th input line (each page is
\* requested once, in input order); the failure records are the failed
\* pages in input order and failed_websites.csv holds them in that order;
\* the report rows follow page order and, inside a page, discovery order;
\* when the next page is about to be fetched every image of the previous
\* one has been probed.
C10_OutputFollowsInputOrder ==
    /\ Len(page_log) <= Len(urls)
    /\ \A k \in 1..Len(page_log) : page_log[k].url = NormalizeUrl(urls[k])
    /\ pc = "pages" => Len(page_log) = i - 1
    /\ pc = "images" => Len(page_log) = i
    /\ pc = "done" => Len(page_log) = Len(urls)
    /\ LET failed == FailedPages(Len(page_log)) IN
       /\ Len(failed_websites) = Len(failed)
       /\ \A n \in 1..Len(failed) : failed_websites[n].url = urls[failed[n]]
    /\ pc = "done" => failed_report.rows = failed_websites
    /\ IsSubsequence([n \in 1..Len(image_report.rows) |->
                         <<image_report.rows[n].website, image_report.rows[n].image>>],
                     Discovered(Len(page_log)))
    /\ (pc = "pages" /\ page_log # <<>> /\ ~FetchFailed(Len(page_log))) =>
           j = Len(images) + 1

\* a finished run with two failed pages of different urls and two rows of
\* one page
C10_Witness ==
    /\ pc = "done"
    /\ Len(failed_websites) = 2
    /\ failed_websites[1].url # failed_websites[2].url
    /\ Len(image_report.rows) = 2
    /\ image_report.rows[1].image # image_report.rows[2].image

-----------------------------------------------------------------------------
(* Properties of get_images_from_url *)

Returned == pc = "returned" /\ ~x_result.raised /\ x_result.error = None

\* a tag whose source the claims count as a reference
Eligible(tag) ==
    \/ /\ tag.name \in {"img", "embed"}
       /\ tag.src # None /\ tag.src[1] # EmptyStr /\ tag.src[1].scheme # "data"
    \/ /\ tag.name = "object"
       /\ tag.data # None /\ tag.data[1] # EmptyStr /\ tag.data[1].scheme # "data"

EligibleSource(tag) == IF tag.name = "object" THEN tag.data[1] ELSE tag.src[1]

\* C4 as stated: every kept source is resolved against the full
\* redirect-resolved page URL by the standard joining rules.
C4_ResolvedAgainstPageUrl ==
    Returned =>
        LET tags == SelectSeq(x_response.text, Eligible) IN
        x_result.images =
            [k \in 1..Len(tags) |-> urljoin(x_response.url, EligibleSource(tags[k]))]

FirstIndex(s, e) == CHOOSE k \in 1..Len(s) : s[k] = e /\ \A m \in 1..(k - 1) : s[m] # e

\* C5: the returned list has no two equal URLs, holds every URL collected
\* from the document, and orders them by first occurrence.
C5_DedupFirstSeenOrder ==
    Returned =>
        LET all == x_result.images
            uniq == x_result.unique_images IN
        /\ all = CollectImages(x_response.url, x_response.text)
        /\ \A a, b \in 1..Len(uniq) : a # b => uniq[a] # uniq[b]
        /\ Range(uniq) = Range(all)
        /\ \A a, b \in 1..Len(uniq) :
              a < b => FirstIndex(all, uniq[a]) < FirstIndex(all, uniq[b])

\* a document whose first and third sources resolve to the same URL
C5_Witness ==
    /\ Returned
    /\ Len(x_result.images) = 3
    /\ x_result.images[1] = x_result.images[3]
    /\ x_result.images[1] # x_result.images[2]
    /\ x_result.unique_images = <<x_result.images[1], x_result.images[2]>>

\* C6: every returned reference comes from an img/embed src or an object
\* data attribute that is present, non-empty and no data: URI; each such
\* tag yields one collected reference and no other tag yields any.
C6_OnlyFetchableSources ==
    Returned =>
        LET tags == SelectSeq(x_response.text, Eligible) IN
        /\ Len(x_result.images) = Len(tags)
        /\ \A ref \in Range(x_result.unique_images) :
              /\ ref.scheme # "data"
              /\ ref # EmptyStr
              /\ \E tag \in Range(x_response.text) :
                    /\ Eligible(tag)
                    /\ ref = urljoin(BaseOf(x_response.url), EligibleSource(tag))

\* a document with a data: source, a tag lacking its source attribute and
\* one fetchable source, of which only the last is returned
C6_Witness ==
    /\ Returned
    /\ \E t \in Range(x_response.text) : t.name = "img" /\ t.src = Some(SrcData)
    /\ \E t \in Range(x_response.text) : t.name = "object" /\ t.data = None
    /\ Len(x_result.unique_images) = 1

====
